---- MODULE Spec2Model ----
(***************************************************************************)
(* Panorama Slicer (src/panorama_slicer.py): the PanoramaSlicer object as  *)
(* a state machine.  One action per Tk event handler / toolbar command     *)
(* that changes the image, the page grid or the view: load_image,          *)
(* fit_to_window, zoom_100, on_scroll, on_resize, on_right_click,          *)
(* reset_start, on_direction_change, pan_by.  Every handler ends with      *)
(* refresh_view, whose pan clamp is part of the handler's action.  The     *)
(* page geometry used by export, print, click and hover is given as        *)
(* operators over the current state.                                       *)
(* Spec follows these handlers; SpecLoad follows load_image over every      *)
(* raster size, its failures and set_output_dir; SpecExport follows the    *)
(* export and print handlers, whose loops run the event loop between       *)
(* pages, together with the handlers that can run from there.              *)
(*                                                                         *)
(* Python floats are modelled as exact rationals <<n, d>> (d > 0, lowest   *)
(* terms): every float the handlers compute is a quotient of small         *)
(* integers, and the conversions applied to them (int(), math.ceil, //,    *)
(* round) are modelled by what they do to the exact value.                 *)
(***************************************************************************)
EXTENDS Integers, Sequences, FiniteSets, TLC

(***************************************************************************)
(* Bounds of the model.                                                    *)
(***************************************************************************)
\* scroll-wheel events handled in one run of the program
MaxScroll == 2
\* raster sizes drawn by the load-only specification
MaxWidth == 12
MaxHeight == 20

(***************************************************************************)
(* Exact rational arithmetic standing for Python float arithmetic.         *)
(***************************************************************************)
Abs(i) == IF i < 0 THEN -i ELSE i

RECURSIVE GCD(_, _)
GCD(a, b) == IF b = 0 THEN a ELSE GCD(b, a % b)

\* n/d in lowest terms with a positive denominator (d # 0)
Norm(n, d) ==
    LET s == IF d < 0 THEN -1 ELSE 1
        g == GCD(Abs(n), Abs(d))
    IN  <<(s * n) \div g, (s * d) \div g>>

R(i) == <<i, 1>>
RAdd(a, b) == Norm(a[1] * b[2] + b[1] * a[2], a[2] * b[2])
RSub(a, b) == Norm(a[1] * b[2] - b[1] * a[2], a[2] * b[2])
RMul(a, b) == Norm(a[1] * b[1], a[2] * b[2])
RDiv(a, b) == Norm(a[1] * b[2], a[2] * b[1])
RLt(a, b) == a[1] * b[2] < b[1] * a[2]
RLe(a, b) == a[1] * b[2] <= b[1] * a[2]
RMin(a, b) == IF RLe(a, b) THEN a ELSE b
RMax(a, b) == IF RLe(a, b) THEN b ELSE a
\* max / min of two ints
IMax(i, j) == IF i >= j THEN i ELSE j
IMin(i, j) == IF i <= j THEN i ELSE j

\* math.floor / the float result of x // y
Floor(a) == a[1] \div a[2]
\* math.ceil
Ceil(a) == -((-a[1]) \div a[2])
\* int(x): truncation toward zero
PyInt(a) == IF a[1] >= 0 THEN Floor(a) ELSE Ceil(a)
\* round(x): Python 3 rounds halves to the even neighbour
Round(a) ==
    LET f == Floor(a)
        twice == 2 * (a[1] - f * a[2])
    IN  IF twice < a[2] THEN f
        ELSE IF twice > a[2] THEN f + 1
        ELSE IF f % 2 = 0 THEN f ELSE f + 1

(***************************************************************************)
(* Program constants.                                                      *)
(***************************************************************************)
PAGE_WIDTH_INCHES == 11
PAGE_HEIGHT_INCHES == <<17, 2>>     \* 8.5
INITIAL_ZOOM == <<1, 10>>           \* 0.1
FIT_MARGIN == <<19, 20>>            \* 0.95
ZOOM_MIN == <<1, 100>>              \* 0.01
ZOOM_MAX == <<5, 1>>                \* 5.0
ZOOM_IN == <<6, 5>>                 \* 1.2
ZOOM_OUT == RDiv(R(1), <<6, 5>>)    \* 1 / 1.2
FIT_FALLBACK == <<1400, 800>>
ARROW_STEPS == {<<-100, 0>>, <<100, 0>>, <<0, -100>>, <<0, 100>>,
                <<-500, 0>>, <<500, 0>>, <<0, -500>>, <<0, 500>>}

(***************************************************************************)
(* The environment: image files the user can open, canvas sizes the window *)
(* manager can give the canvas, pointer positions of mouse events.         *)
(***************************************************************************)
NoImage == "None"
\* path |-> decoded size <<width, height>>
ImageFiles == [wide |-> <<19, 4>>, short |-> <<9, 4>>, narrow |-> <<1, 2>>]
Paths == {"wide", "narrow"}
\* the files opened where batches are followed: two pages and one page
ExportPaths == {"short", "narrow"}
\* files whose header Image.open accepts and whose data load() cannot decode
BrokenFiles == {"truncated"}
CanvasSizes == {<<12, 12>>, <<10, 12>>}
ClickXs == {0, 3}
\* canvas x of the right-clicks made where batches are followed
ExportClickXs == {0}
ScrollPoints == {<<3, 0>>, <<3, 2>>}

VARIABLES
    original_image,  \* path of the decoded image held, or NoImage
    image_path,
    img_width,
    img_height,
    page_width_px,
    page_height_px,
    start_offset,    \* rational
    pages_x,
    right_to_left,
    zoom,            \* rational
    pan_x,           \* rational
    pan_y,           \* rational
    output_dir,
    canvas,          \* <<winfo_width, winfo_height>> of the canvas
    scrolls,         \* scroll events handled so far
    last,            \* the handler that ran last, with its locals
    batches          \* stack of the batch loops in flight, innermost last

image_vars == <<original_image, image_path, img_width, img_height,
                page_width_px, page_height_px>>
grid_vars == <<start_offset, pages_x, right_to_left>>
view_vars == <<zoom, pan_x, pan_y>>
export_vars == <<batches>>
vars == <<original_image, image_path, img_width, img_height, page_width_px,
          page_height_px, start_offset, pages_x, right_to_left, zoom, pan_x,
          pan_y, output_dir, canvas, scrolls, last, batches>>

Init ==
    /\ original_image = NoImage
    /\ image_path = NoImage
    /\ img_width = 0
    /\ img_height = 0
    /\ page_width_px = 0       \* attribute not set before the first load
    /\ page_height_px = 0      \* attribute not set before the first load
    /\ start_offset = R(0)
    /\ pages_x = 0             \* attribute not set before the first load
    /\ right_to_left = TRUE
    /\ zoom = INITIAL_ZOOM
    /\ pan_x = R(0)
    /\ pan_y = R(0)
    /\ output_dir = NoImage
    /\ canvas \in CanvasSizes
    /\ scrolls = 0
    /\ last = [op |-> "init"]
    /\ batches = <<>>

(***************************************************************************)
(* refresh_view: the pan clamp (the rest of the method only draws).        *)
(***************************************************************************)
ClampPan(p, img_size, canvas_size, z) ==
    LET view == RDiv(R(canvas_size), z)
        max_pan == RMax(R(0), RSub(R(img_size), view))
    IN  RMax(R(0), RMin(p, max_pan))

\* MUTANT of PageWidthPx: rounds to the nearest integer
PageWidthPx_Rounds(h) ==
    Round(RMul(RDiv(R(h), PAGE_HEIGHT_INCHES), R(PAGE_WIDTH_INCHES)))

\* page width on load: int(img_height / 8.5 * 11)
PageWidthPx(h) == PyInt(RMul(RDiv(R(h), PAGE_HEIGHT_INCHES), R(PAGE_WIDTH_INCHES)))

\* MUTANT of PageCount: truncates the quotient instead of rounding it up
PageCount_Truncates(w, so, p) == PyInt(RDiv(RSub(R(w), so), R(p)))

\* math.ceil((img_width - start_offset) / page_width_px)
PageCount(w, so, p) == Ceil(RDiv(RSub(R(w), so), R(p)))

\* fit_to_window: the zoom it sets
FitZoom(cv, w, h) ==
    LET c == IF cv[1] < 10 \/ cv[2] < 10 THEN FIT_FALLBACK ELSE cv
    IN  RMul(RMin(RDiv(R(c[1]), R(w)), RDiv(R(c[2]), R(h))), FIT_MARGIN)

\* load_image when Image.open(path) decodes a raster of w x h pixels
LoadImage(path, w, h) ==
    LET p == PageWidthPx(h)
    IN  /\ original_image' = path
        /\ image_path' = path
        /\ img_width' = w
        /\ img_height' = h
        /\ page_width_px' = p
        /\ page_height_px' = h
        /\ start_offset' = R(0)
        /\ pages_x' = PageCount(w, R(0), p)
        /\ output_dir' = IF output_dir = NoImage THEN "dirname" ELSE output_dir
        /\ zoom' = FitZoom(canvas, w, h)
        /\ pan_x' = ClampPan(R(0), w, canvas[1], zoom')
        /\ pan_y' = ClampPan(R(0), h, canvas[2], zoom')
        /\ last' = [op |-> "load_image"]
        /\ UNCHANGED <<export_vars, right_to_left, canvas, scrolls>>

load_image(path) == LoadImage(path, ImageFiles[path][1], ImageFiles[path][2])

\* what load_image assigns inside its try block, in the order of assignment
LoadState ==
    <<original_image, image_path, img_width, img_height,
      page_width_px, page_height_px, start_offset, pages_x>>

\* load_image when Image.open(path) raises (missing or unrecognised file):
\* nothing has been assigned yet, the except branch shows the error
load_image_open_fails ==
    /\ last' = [op |-> "load_image_failed", step |-> "open", before |-> LoadState]
    /\ UNCHANGED <<export_vars, image_vars, grid_vars, view_vars, output_dir, canvas, scrolls>>

\* load_image when Image.open(path) succeeds on the header and
\* original_image.load() raises (truncated or corrupt data): line 150 has
\* already rebound self.original_image, the except branch restores nothing
load_image_decode_fails(path) ==
    /\ original_image' = path
    /\ last' = [op |-> "load_image_failed", step |-> "decode", before |-> LoadState]
    /\ UNCHANGED <<export_vars, image_path, img_width, img_height, page_width_px, page_height_px,
                   grid_vars, view_vars, output_dir, canvas, scrolls>>

fit_to_window ==
    /\ original_image # NoImage
    /\ zoom' = FitZoom(canvas, img_width, img_height)
    /\ pan_x' = ClampPan(R(0), img_width, canvas[1], zoom')
    /\ pan_y' = ClampPan(R(0), img_height, canvas[2], zoom')
    /\ last' = [op |-> "fit_to_window"]
    /\ UNCHANGED <<export_vars, image_vars, grid_vars, output_dir, canvas, scrolls>>

zoom_100 ==
    /\ original_image # NoImage
    /\ zoom' = R(1)
    /\ pan_x' = ClampPan(pan_x, img_width, canvas[1], zoom')
    /\ pan_y' = ClampPan(pan_y, img_height, canvas[2], zoom')
    /\ last' = [op |-> "zoom_100"]
    /\ UNCHANGED <<export_vars, image_vars, grid_vars, output_dir, canvas, scrolls>>

\* MUTANT of AnchoredPan: divides by the zoom before the wheel event
AnchoredPan_OldZoom(mouse_img, s, new_zoom) == RSub(mouse_img, RDiv(R(s), zoom))

\* on_scroll: the pan that keeps the image point mouse_img under canvas
\* coordinate s at the new zoom
AnchoredPan(mouse_img, s, new_zoom) == RSub(mouse_img, RDiv(R(s), new_zoom))

\* on_scroll: wheel event at canvas point pt; up = wheel away from the user
on_scroll(pt, up) ==
    LET factor == IF up THEN ZOOM_IN ELSE ZOOM_OUT
        mouse_x_img == RAdd(pan_x, RDiv(R(pt[1]), zoom))
        mouse_y_img == RAdd(pan_y, RDiv(R(pt[2]), zoom))
        new_zoom == RMax(ZOOM_MIN, RMin(ZOOM_MAX, RMul(zoom, factor)))
    IN  /\ original_image # NoImage
        /\ scrolls < MaxScroll
        /\ scrolls' = scrolls + 1
        /\ zoom' = new_zoom
        /\ pan_x' = ClampPan(AnchoredPan(mouse_x_img, pt[1], new_zoom),
                             img_width, canvas[1], new_zoom)
        /\ pan_y' = ClampPan(AnchoredPan(mouse_y_img, pt[2], new_zoom),
                             img_height, canvas[2], new_zoom)
        /\ last' = [op |-> "on_scroll", x |-> pt[1], y |-> pt[2],
                    mouse_x_img |-> mouse_x_img, mouse_y_img |-> mouse_y_img]
        /\ UNCHANGED <<export_vars, image_vars, grid_vars, output_dir, canvas>>

\* on_resize: <Configure> after the canvas got a new size
on_resize(cv) ==
    /\ cv # canvas
    /\ canvas' = cv
    /\ IF original_image # NoImage
       THEN /\ pan_x' = ClampPan(pan_x, img_width, cv[1], zoom)
            /\ pan_y' = ClampPan(pan_y, img_height, cv[2], zoom)
       ELSE UNCHANGED <<pan_x, pan_y>>
    /\ last' = [op |-> "on_resize"]
    /\ UNCHANGED <<export_vars, image_vars, grid_vars, zoom, output_dir, scrolls>>

\* MUTANT of SetStart: clamps from above only
SetStart_NoLowerClamp(img_x, rtl, w, p) ==
    LET raw == IF rtl THEN RSub(R(w), img_x) ELSE img_x
    IN  RMin(raw, R(w - p))

\* MUTANT of SetStart: measures from the left edge in both directions
SetStart_IgnoresDirection(img_x, rtl, w, p) ==
    RMax(R(0), RMin(img_x, R(w - p)))

\* on_right_click: start_offset from the clicked image x, clamped
SetStart(img_x, rtl, w, p) ==
    LET raw == IF rtl THEN RSub(R(w), img_x) ELSE img_x
    IN  RMax(R(0), RMin(raw, R(w - p)))

on_right_click(x) ==
    LET img_x == RAdd(pan_x, RDiv(R(x), zoom))
    IN  /\ original_image # NoImage
        /\ start_offset' = SetStart(img_x, right_to_left, img_width, page_width_px)
        /\ pages_x' = PageCount(img_width, start_offset', page_width_px)
        /\ pan_x' = ClampPan(pan_x, img_width, canvas[1], zoom)
        /\ pan_y' = ClampPan(pan_y, img_height, canvas[2], zoom)
        /\ last' = [op |-> "on_right_click", img_x |-> img_x, after |-> last.op]
        /\ UNCHANGED <<export_vars, image_vars, right_to_left, zoom, output_dir, canvas, scrolls>>

\* the body of reset_start, shared with on_direction_change
ResetStart ==
    /\ start_offset' = R(0)
    /\ pages_x' = IF original_image # NoImage
                  THEN PageCount(img_width, R(0), page_width_px)
                  ELSE pages_x
    /\ IF original_image # NoImage
       THEN /\ pan_x' = ClampPan(pan_x, img_width, canvas[1], zoom)
            /\ pan_y' = ClampPan(pan_y, img_height, canvas[2], zoom)
       ELSE UNCHANGED <<pan_x, pan_y>>

reset_start ==
    /\ ResetStart
    /\ last' = [op |-> "reset_start"]
    /\ UNCHANGED <<export_vars, image_vars, right_to_left, zoom, output_dir, canvas, scrolls>>

\* the Right-to-Left checkbutton: Tk flips the variable, then runs the command
on_direction_change ==
    /\ right_to_left' = ~right_to_left
    /\ ResetStart
    /\ last' = [op |-> "on_direction_change"]
    /\ UNCHANGED <<export_vars, image_vars, zoom, output_dir, canvas, scrolls>>

\* pan_by: arrow keys
pan_by(d) ==
    /\ original_image # NoImage
    /\ pan_x' = ClampPan(RAdd(pan_x, RDiv(R(d[1]), zoom)), img_width, canvas[1], zoom)
    /\ pan_y' = ClampPan(RAdd(pan_y, RDiv(R(d[2]), zoom)), img_height, canvas[2], zoom)
    /\ last' = [op |-> "pan_by"]
    /\ UNCHANGED <<export_vars, image_vars, grid_vars, zoom, output_dir, canvas, scrolls>>

(***************************************************************************)
(* Page geometry of the current state: the pure computations of            *)
(* export_page, get_page_image, export_clicked_page, on_mouse_move,        *)
(* export_visible_pages and get_visible_page_numbers.                      *)
(***************************************************************************)
\* start_x: the image x page 1 is measured from
StartX == IF right_to_left THEN RSub(R(img_width), start_offset) ELSE start_offset

\* MUTANT of ExportPageRect: right-to-left, left is not held at the raster edge
ExportPageRect_NoEdgeClamp(page_num) ==
    LET step == R((page_num - 1) * page_width_px)
    IN  IF right_to_left
        THEN LET right == RSub(StartX, step)
             IN  <<RSub(right, R(page_width_px)), right>>
        ELSE LET left == RAdd(StartX, step)
             IN  <<left, RMin(RAdd(left, R(page_width_px)), R(img_width))>>

\* export_page: the box <<left, right>> handed to Image.crop for page_num
ExportPageRect(page_num) ==
    LET step == R((page_num - 1) * page_width_px)
    IN  IF right_to_left
        THEN LET right == RSub(StartX, step)
             IN  <<RMax(R(0), RSub(right, R(page_width_px))), right>>
        ELSE LET left == RAdd(StartX, step)
             IN  <<left, RMin(RAdd(left, R(page_width_px)), R(img_width))>>

\* get_page_image: the same box, computed by its own copy of the code
GetPageImageRect(page_num) ==
    LET step == R((page_num - 1) * page_width_px)
    IN  IF right_to_left
        THEN LET right == RSub(StartX, step)
             IN  <<RMax(R(0), RSub(right, R(page_width_px))), right>>
        ELSE LET left == RAdd(StartX, step)
             IN  <<left, RMin(RAdd(left, R(page_width_px)), R(img_width))>>

\* Image.crop: Pillow rounds each coordinate of the box with round();
\* the width of the cropped image
CropWidth(rect) == Round(rect[2]) - Round(rect[1])

\* the page image built from a crop box: pad to the page size when the crop
\* is not exactly page_width_px wide
PageImage(rect) ==
    LET w == CropWidth(rect)
    IN  IF w # page_width_px
        THEN [width |-> page_width_px, height |-> page_height_px,
              padded |-> TRUE, crop_width |-> w,
              paste_x |-> IF right_to_left THEN page_width_px - w ELSE 0]
        ELSE [width |-> w, height |-> img_height,
              padded |-> FALSE, crop_width |-> w, paste_x |-> 0]

ExportPageImage(page_num) == PageImage(ExportPageRect(page_num))
GetPageImage(page_num) == PageImage(GetPageImageRect(page_num))

\* MUTANT of ClickedPage: page numbers counted from 0
ClickedPage_ZeroBased(img_x) ==
    LET dist_from_start == IF right_to_left THEN RSub(StartX, img_x)
                                            ELSE RSub(img_x, StartX)
    IN  Floor(RDiv(dist_from_start, R(page_width_px)))

\* export_clicked_page: page under image x, int(dist_from_start // page_width_px) + 1
ClickedPage(img_x) ==
    LET dist_from_start == IF right_to_left THEN RSub(StartX, img_x)
                                            ELSE RSub(img_x, StartX)
    IN  Floor(RDiv(dist_from_start, R(page_width_px))) + 1

\* on_mouse_move: the same lookup for the hover label
HoverPage(img_x) ==
    LET dist_from_start == IF right_to_left THEN RSub(StartX, img_x)
                                            ELSE RSub(img_x, StartX)
    IN  Floor(RDiv(dist_from_start, R(page_width_px))) + 1

\* MUTANT of ExportVisibleRange: the end page is not capped by pages_x
ExportVisibleRange_NoCap ==
    LET view_left == pan_x
        view_right == RAdd(pan_x, RDiv(R(canvas[1]), zoom))
        pw == R(page_width_px)
    IN  IF right_to_left
        THEN <<IMax(1, Floor(RDiv(RSub(StartX, view_right), pw)) + 1),
               Floor(RDiv(RSub(StartX, view_left), pw)) + 1>>
        ELSE <<IMax(1, Floor(RDiv(RSub(view_left, StartX), pw)) + 1),
               Floor(RDiv(RSub(view_right, StartX), pw)) + 1>>

\* export_visible_pages: <<start_page, end_page>>
ExportVisibleRange ==
    LET view_left == pan_x
        view_right == RAdd(pan_x, RDiv(R(canvas[1]), zoom))
        pw == R(page_width_px)
    IN  IF right_to_left
        THEN <<IMax(1, Floor(RDiv(RSub(StartX, view_right), pw)) + 1),
               IMin(pages_x, Floor(RDiv(RSub(StartX, view_left), pw)) + 1)>>
        ELSE <<IMax(1, Floor(RDiv(RSub(view_left, StartX), pw)) + 1),
               IMin(pages_x, Floor(RDiv(RSub(view_right, StartX), pw)) + 1)>>

\* get_visible_page_numbers (print "Visible pages only"): the same range
PrintVisibleRange ==
    LET view_left == pan_x
        view_right == RAdd(pan_x, RDiv(R(canvas[1]), zoom))
        pw == R(page_width_px)
    IN  IF right_to_left
        THEN <<IMax(1, Floor(RDiv(RSub(StartX, view_right), pw)) + 1),
               IMin(pages_x, Floor(RDiv(RSub(StartX, view_left), pw)) + 1)>>
        ELSE <<IMax(1, Floor(RDiv(RSub(view_left, StartX), pw)) + 1),
               IMin(pages_x, Floor(RDiv(RSub(view_right, StartX), pw)) + 1)>>

Next ==
    \/ \E path \in Paths : load_image(path)
    \/ fit_to_window
    \/ zoom_100
    \/ \E pt \in ScrollPoints, up \in BOOLEAN : on_scroll(pt, up)
    \/ \E cv \in CanvasSizes : on_resize(cv)
    \/ \E x \in ClickXs : on_right_click(x)
    \/ reset_start
    \/ on_direction_change
    \/ \E d \in ARROW_STEPS : pan_by(d)

Spec == Init /\ [][Next]_vars


(***************************************************************************)
(* Exporting and printing.  The batch loops call self.root.update() once   *)
(* per page; update() runs the Tk event loop, so any handler can run       *)
(* there, to completion, before the loop resumes.  batches is the stack    *)
(* of the loops in flight: a handler run from update() of the innermost    *)
(* loop may start another loop, which then runs inside the first.          *)
(***************************************************************************)
\* loops nested through update() that are followed
MaxDepth == 2

\* directories askdirectory can return
ExportDirs == {"chosen"}
\* the choices of the print dialog that are followed
PrintChoices == {"all", "visible"}
ExportKinds == {"export_all", "export_visible"}

\* a batch loop: its range, the page it is at, and whether it is in the
\* loop body ("page") or inside root.update() ("update"); written and
\* foreign record the files this loop wrote and the files other loops
\* wrote since its first write
Frame(kind, first, stop) ==
    [kind |-> kind, first |-> first, stop |-> stop, page_num |-> first,
     at |-> IF kind = "print" THEN "update" ELSE "page",
     written |-> {}, foreign |-> {}]
Top == batches[Len(batches)]
Pop == SubSeq(batches, 1, Len(batches) - 1)

\* the event loop is running: mainloop with no batch in flight, or
\* root.update() of the innermost batch
Dispatching == IF batches = <<>> THEN TRUE ELSE Top.at = "update"

\* set_output_dir, when the dialog returns a directory
set_output_dir(dir) ==
    /\ Dispatching
    /\ output_dir' = dir
    /\ last' = [op |-> "set_output_dir"]
    /\ UNCHANGED <<image_vars, grid_vars, view_vars, canvas, scrolls, export_vars>>

\* export_page: os.path.join(output_dir, f"{base_name}_page{page_num:03d}.png")
OutputPath(page_num) == <<output_dir, image_path, page_num>>

\* Image.crop with right < left: ValueError in current Pillow releases, an
\* empty image in the releases before the check was added
CropInverted(rect) == RLt(rect[2], rect[1])

\* export_page: how the call can end.  It checks neither output_dir nor
\* page_num; os.path.join raises on a None directory, save() can raise for
\* reasons outside the program
ExportPageOutcomes(page_num) ==
    IF output_dir = NoImage THEN {"join_raises"}
    ELSE {"saved", "save_raises"}
         \cup (IF CropInverted(ExportPageRect(page_num)) THEN {"crop_raises"} ELSE {})

\* get_page_image and the printer calls of one page of print_pages
PrintPageOutcomes(page_num) ==
    {"printed", "printer_raises"}
    \cup (IF CropInverted(GetPageImageRect(page_num)) THEN {"crop_raises"} ELSE {})

\* what export_page leaves behind for a given outcome
ExportPageRecord(via, page_num, result) ==
    [op |-> "export_page", via |-> via, page_num |-> page_num,
     pages_x |-> pages_x, output_dir |-> output_dir, result |-> result,
     depth |-> Len(batches),
     remaining |-> IF via \in ExportKinds THEN Top.stop - page_num ELSE 0,
     prev |-> IF via \in ExportKinds /\ page_num > Top.first THEN page_num - 1 ELSE 0,
     interleaved |->
        via \in ExportKinds /\
        (Top.written \cup {OutputPath(page_num)}) \cap Top.foreign # {}]

\* on_mouse_up after a press without a drag: export_clicked_page(event.x, event.y)
on_mouse_up(x) ==
    /\ Dispatching
    /\ original_image # NoImage
    /\ LET img_x == RAdd(pan_x, RDiv(R(x), zoom))
           page_num == ClickedPage(img_x)
       IN  IF output_dir # NoImage /\ 1 <= page_num /\ page_num <= pages_x
           THEN \E result \in ExportPageOutcomes(page_num) :
                  last' = ExportPageRecord("click", page_num, result)
           ELSE last' = [op |-> "on_mouse_up"]
    /\ UNCHANGED <<image_vars, grid_vars, view_vars, output_dir, canvas, scrolls, batches>>

\* export_all_pages up to the start of its loop, the confirmation answered yes
export_all_pages ==
    /\ Dispatching
    /\ original_image # NoImage
    /\ output_dir # NoImage
    /\ Len(batches) < MaxDepth
    /\ batches' = Append(batches, Frame("export_all", 1, pages_x))
    /\ last' = [op |-> "export_all_pages", total |-> pages_x]
    /\ UNCHANGED <<image_vars, grid_vars, view_vars, output_dir, canvas, scrolls>>

\* export_visible_pages up to the start of its loop, the confirmation
\* answered yes; an empty range runs the loop zero times
export_visible_pages ==
    /\ Dispatching
    /\ original_image # NoImage
    /\ output_dir # NoImage
    /\ Len(batches) < MaxDepth
    /\ LET start_page == ExportVisibleRange[1]
           end_page == ExportVisibleRange[2]
           count == end_page - start_page + 1
       IN  IF start_page <= end_page
           THEN /\ batches' = Append(batches, Frame("export_visible", start_page, end_page))
                /\ last' = [op |-> "export_visible_pages", total |-> count]
           ELSE /\ batches' = batches
                /\ last' = [op |-> "batch_ended", kind |-> "export_visible",
                            total |-> count, attempted |-> 0]
    /\ UNCHANGED <<image_vars, grid_vars, view_vars, output_dir, canvas, scrolls>>

\* show_print_dialog and do_print: the dialog holds the grab until Print is
\* pressed, then print_pages starts with the list of the chosen pages
show_print_dialog(choice) ==
    /\ Dispatching
    /\ original_image # NoImage
    /\ Len(batches) < MaxDepth
    /\ LET pages == IF choice = "all" THEN <<1, pages_x>> ELSE PrintVisibleRange
       IN  IF pages[1] <= pages[2]
           THEN /\ batches' = Append(batches, Frame("print", pages[1], pages[2]))
                /\ last' = [op |-> "print_pages", total |-> pages[2] - pages[1] + 1]
           ELSE /\ batches' = batches
                /\ last' = [op |-> "show_print_dialog"]    \* "No pages to print"
    /\ UNCHANGED <<image_vars, grid_vars, view_vars, output_dir, canvas, scrolls>>

\* a file written by the innermost loop, as seen by the loops it runs inside
NoteForeign(frame, path) ==
    IF frame.written # {} THEN [frame EXCEPT !.foreign = @ \cup {path}] ELSE frame

\* one pass of the loop body of export_all_pages / export_visible_pages, up
\* to root.update(): export_page(page_num).  An exception of export_page is
\* caught nowhere in the loop and leaves the handler
batch_export_page ==
    /\ batches # <<>>
    /\ Top.at = "page"
    /\ Top.kind \in ExportKinds
    /\ \E result \in ExportPageOutcomes(Top.page_num) :
         /\ last' = ExportPageRecord(Top.kind, Top.page_num, result)
         /\ IF result = "saved"
            THEN batches' =
                      [i \in 1..Len(batches) |->
                         IF i = Len(batches)
                         THEN [Top EXCEPT !.at = "update",
                                          !.written = @ \cup {OutputPath(Top.page_num)}]
                         ELSE NoteForeign(batches[i], OutputPath(Top.page_num))]
            ELSE batches' = Pop
    /\ UNCHANGED <<image_vars, grid_vars, view_vars, output_dir, canvas, scrolls>>

\* one pass of the loop body of print_pages after root.update(): the page
\* image is built and handed to the printer; after the last page the job
\* is closed.  Any exception ends the job in the except branch
batch_print_page ==
    /\ batches # <<>>
    /\ Top.at = "page"
    /\ Top.kind = "print"
    /\ \E result \in PrintPageOutcomes(Top.page_num) :
         /\ last' = [op |-> "print_page", page_num |-> Top.page_num,
                     pages_x |-> pages_x, result |-> result,
                     prev |-> IF Top.page_num > Top.first THEN Top.page_num - 1 ELSE 0]
         /\ IF result = "printed" /\ Top.page_num < Top.stop
            THEN batches' = [batches EXCEPT ![Len(batches)] =
                               [Top EXCEPT !.page_num = @ + 1, !.at = "update"]]
            ELSE batches' = Pop
    /\ UNCHANGED <<image_vars, grid_vars, view_vars, output_dir, canvas, scrolls>>

\* root.update() of the innermost loop returns: the export loops go on to
\* the next page or finish with their "Exported n pages" message, the
\* print loop goes on to its page
batch_update ==
    /\ batches # <<>>
    /\ Top.at = "update"
    /\ IF Top.kind = "print"
       THEN /\ batches' = [batches EXCEPT ![Len(batches)] = [Top EXCEPT !.at = "page"]]
            /\ last' = [op |-> "update"]
       ELSE IF Top.page_num < Top.stop
            THEN /\ batches' = [batches EXCEPT ![Len(batches)] =
                                  [Top EXCEPT !.page_num = @ + 1, !.at = "page"]]
                 /\ last' = [op |-> "update"]
            ELSE /\ batches' = Pop
                 /\ last' = [op |-> "batch_ended", kind |-> Top.kind,
                             total |-> Top.stop - Top.first + 1,
                             attempted |-> Top.stop - Top.first + 1]
    /\ UNCHANGED <<image_vars, grid_vars, view_vars, output_dir, canvas, scrolls>>

(***************************************************************************)
(* Second specification: load_image over every raster size of the bounds,  *)
(* the loads that fail, and the choice of an output directory before or    *)
(* after a load; for the claims about what a load does.                    *)
(***************************************************************************)
load_any == \E w \in 1..MaxWidth, h \in 1..MaxHeight : LoadImage("any", w, h)
load_fails ==
    \/ load_image_open_fails
    \/ \E path \in BrokenFiles : load_image_decode_fails(path)
choose_dir == \E dir \in ExportDirs : set_output_dir(dir)
SpecLoad == Init /\ [][load_any \/ load_fails \/ choose_dir]_vars

(***************************************************************************)
(* Third specification: the export and print handlers, with the handlers   *)
(* that change the raster, the pagination and the visible range running    *)
(* either from mainloop or from root.update() of a batch in flight.        *)
(***************************************************************************)
NextExport ==
    \/ \E path \in ExportPaths : Dispatching /\ load_image(path)
    \/ Dispatching /\ zoom_100
    \/ \E x \in ExportClickXs : Dispatching /\ on_right_click(x)
    \/ Dispatching /\ reset_start
    \/ Dispatching /\ on_direction_change
    \/ \E x \in ClickXs : on_mouse_up(x)
    \/ export_all_pages
    \/ export_visible_pages
    \/ \E choice \in PrintChoices : show_print_dialog(choice)
    \/ batch_export_page
    \/ batch_print_page
    \/ batch_update

SpecExport == Init /\ [][NextExport]_vars

(***************************************************************************)
(* Claims.                                                                 *)
(***************************************************************************)
\* a load has completed: image_path is assigned only after the forced decode
Loaded == image_path # NoImage
PageNums == 1..pages_x
\* pages_x is math.ceil((img_width - start_offset) / page_width_px), >= 1
CountIsCeil ==
    /\ pages_x = Ceil(RDiv(RSub(R(img_width), start_offset), R(page_width_px)))
    /\ pages_x >= 1

\* C1 (as stated): once an image is loaded, start_offset lies in
\* [0, img_width - page_width_px] and pages_x is
\* ceil((img_width - start_offset) / page_width_px) >= 1.
C1_Original ==
    Loaded =>
        /\ RLe(R(0), start_offset)
        /\ RLe(start_offset, R(img_width - page_width_px))
        /\ CountIsCeil

\* C1 (amended): once an image is loaded, start_offset lies in
\* [0, max(0, img_width - page_width_px)] (it is 0 for an image narrower
\* than one page) and pages_x is ceil((img_width - start_offset) /
\* page_width_px) >= 1.
C1_StartAndCount ==
    Loaded =>
        /\ RLe(R(0), start_offset)
        /\ RLe(start_offset, R(IMax(0, img_width - page_width_px)))
        /\ CountIsCeil

\* C1 witness: a right-click has moved the start inside the image and
\* several pages remain
C1_Witness ==
    /\ last.op = "on_right_click"
    /\ RLt(R(0), start_offset)
    /\ RLt(start_offset, R(img_width - page_width_px))
    /\ pages_x >= 2

\* the box of a page lies inside the raster and is not empty
RectInside(rect) ==
    /\ RLe(R(0), rect[1])
    /\ RLt(rect[1], rect[2])
    /\ RLe(rect[2], R(img_width))

\* C2: for every page number n in 1..pages_x, in either direction, the crop
\* box computed by export_page and by get_page_image has
\* 0 <= left < right <= img_width.
C2_RectInsideRaster ==
    Loaded =>
        \A n \in PageNums :
            /\ RectInside(ExportPageRect(n))
            /\ RectInside(GetPageImageRect(n))

\* C2 witness: a right-to-left grid with a custom start whose last page is
\* cut short by the left edge of the raster
C2_Witness ==
    /\ Loaded
    /\ right_to_left
    /\ RLt(R(0), start_offset)
    /\ pages_x >= 2
    /\ ExportPageRect(pages_x)[1] = R(0)
    /\ RLt(ExportPageRect(pages_x)[2], R(page_width_px))

\* the page image has the page size and a narrow crop is pasted at the side
\* of the page that faces the start
PageImageOk(img) ==
    /\ img.width = page_width_px
    /\ img.height = page_height_px
    /\ img.crop_width < page_width_px =>
           /\ img.padded
           /\ img.paste_x = IF right_to_left THEN page_width_px - img.crop_width
                                             ELSE 0

\* C3: every page image is page_width_px x page_height_px; a crop narrower
\* than the page is pasted at page_width_px - crop width (right-to-left) or
\* at 0 (left-to-right); and only the last page, n = pages_x, has a crop
\* narrower than the page.
C3_PageImage ==
    Loaded =>
        \A n \in PageNums :
            /\ PageImageOk(ExportPageImage(n))
            /\ PageImageOk(GetPageImage(n))
            /\ ExportPageImage(n).crop_width < page_width_px => n = pages_x
            /\ GetPageImage(n).crop_width < page_width_px => n = pages_x

\* the middle of a box
Midpoint(rect) == RDiv(RAdd(rect[1], rect[2]), R(2))

\* C4: for every n in 1..pages_x, the click lookup and the hover lookup of
\* the midpoint of page n's box return n.
C4_MidpointRoundTrip ==
    Loaded =>
        \A n \in PageNums :
            /\ ClickedPage(Midpoint(ExportPageRect(n))) = n
            /\ HoverPage(Midpoint(ExportPageRect(n))) = n

\* C4 witness: the short last page of a grid of several pages
C4_Witness ==
    /\ Loaded
    /\ pages_x >= 2
    /\ RLt(RSub(ExportPageRect(pages_x)[2], ExportPageRect(pages_x)[1]),
           R(page_width_px))
    /\ ClickedPage(Midpoint(ExportPageRect(pages_x))) = pages_x

\* C5: every integer image x with left <= x < right of page n's box is
\* resolved to n by the click lookup and by the hover lookup.
C5_LookupInvertsRect ==
    Loaded =>
        \A n \in PageNums : \A x \in 0..(img_width - 1) :
            (RLe(ExportPageRect(n)[1], R(x)) /\ RLt(R(x), ExportPageRect(n)[2]))
                => (ClickedPage(R(x)) = n /\ HoverPage(R(x)) = n)

\* the pagination state a load leaves: start at the edge, all pages
FreshPagination ==
    /\ start_offset = R(0)
    /\ pages_x = Ceil(RDiv(R(img_width), R(page_width_px)))

\* reset_start has run and then on_right_click at image x = 0
ResetThenSetStartAtZero ==
    /\ Loaded
    /\ last.op = "on_right_click"
    /\ last.after = "reset_start"
    /\ last.img_x = R(0)

\* C6 (as stated): in either direction, reset-start followed by set-start at
\* image x = 0 leaves the pagination state of a fresh load.
C6_Original == ResetThenSetStartAtZero => FreshPagination

\* C6 (amended): reset-start followed by set-start at image x = 0 leaves the
\* pagination state of a fresh load when the direction is left-to-right;
\* right-to-left it leaves start_offset = max(0, img_width - page_width_px)
\* and pages_x = ceil(min(img_width, page_width_px) / page_width_px) = 1.
C6_ResetThenSetStart ==
    ResetThenSetStartAtZero =>
        IF right_to_left
        THEN /\ start_offset = R(IMax(0, img_width - page_width_px))
             /\ pages_x = 1
        ELSE FreshPagination

\* C6 witness: the two actions have run left-to-right on an image of
\* several pages
C6_Witness ==
    /\ ResetThenSetStartAtZero
    /\ ~right_to_left
    /\ pages_x >= 2

\* C7 (as stated): the page width computed on load is round(22 * H / 17)
\* and is positive.
C7_Original ==
    Loaded =>
        /\ page_width_px = Round(<<22 * img_height, 17>>)
        /\ page_width_px > 0

\* C7 (amended): the page width computed on load is floor(22 * H / 17)
\* (int() truncates) and is positive.
C7_PageWidthTruncates ==
    Loaded =>
        /\ page_width_px = (22 * img_height) \div 17
        /\ page_width_px > 0

\* C7 witness: a load of a raster whose height makes 22 * H / 17 round up
C7_Witness ==
    /\ last.op = "load_image"
    /\ 2 * ((22 * img_height) % 17) > 17
    /\ page_width_px >= 2

\* C8: the zoom factor is within [0.01, 5.0] in every reachable state.
C8_ZoomInRange == RLe(ZOOM_MIN, zoom) /\ RLe(zoom, ZOOM_MAX)

\* the image point under the canvas point of the last scroll event, now
ScrollPointNow ==
    <<RAdd(pan_x, RDiv(R(last.x), zoom)), RAdd(pan_y, RDiv(R(last.y), zoom))>>
\* the pan on_scroll derives for the new zoom, before refresh_view clamps it
UnclampedPan ==
    <<RSub(last.mouse_x_img, RDiv(R(last.x), zoom)),
      RSub(last.mouse_y_img, RDiv(R(last.y), zoom))>>
MaxPan ==
    <<RMax(R(0), RSub(R(img_width), RDiv(R(canvas[1]), zoom))),
      RMax(R(0), RSub(R(img_height), RDiv(R(canvas[2]), zoom)))>>
PanNotClamped ==
    /\ RLe(R(0), UnclampedPan[1]) /\ RLe(UnclampedPan[1], MaxPan[1])
    /\ RLe(R(0), UnclampedPan[2]) /\ RLe(UnclampedPan[2], MaxPan[2])

C10_Original ==
    Loaded =>
        /\ ExportVisibleRange[1] \in PageNums /\ ExportVisibleRange[2] \in PageNums
        /\ PrintVisibleRange[1] \in PageNums /\ PrintVisibleRange[2] \in PageNums

\* the view reaches the start of page 1
ViewReachesStart ==
    IF right_to_left
    THEN RLe(pan_x, StartX)
    ELSE RLe(StartX, RAdd(pan_x, RDiv(R(canvas[1]), zoom)))

\* C10 (amended): the visible page range of export-visible and of
\* print-visible has its start page inside 1..pages_x and its end page at
\* most pages_x; the end page is at least 1 exactly when the view reaches
\* the start of page 1, and otherwise the range is empty (end < start).
C10_VisibleRange ==
    Loaded =>
        /\ ExportVisibleRange[1] \in PageNums
        /\ ExportVisibleRange[2] <= pages_x
        /\ ExportVisibleRange[2] >= 1 <=> ViewReachesStart
        /\ PrintVisibleRange = ExportVisibleRange
        /\ ~ViewReachesStart => ExportVisibleRange[2] < ExportVisibleRange[1]

\* C10 witness: a custom start with the whole view on the far side of it
C10_Witness ==
    /\ Loaded
    /\ RLt(R(0), start_offset)
    /\ ~ViewReachesStart
    /\ ExportVisibleRange[2] < 1

\* the pixel columns Image.crop takes for a crop box
CropColumns(rect) == {x \in 0..(img_width - 1) : Round(rect[1]) <= x /\ x < Round(rect[2])}
\* the pixel columns from the start of page 1 to the far edge of the raster
SpanColumns ==
    IF right_to_left
    THEN {x \in 0..(img_width - 1) : RLt(R(x), RSub(R(img_width), start_offset))}
    ELSE {x \in 0..(img_width - 1) : RLe(start_offset, R(x))}
IntegerStart == start_offset[2] = 1

\* C16: with an integer start offset, the crop boxes of pages 1..pages_x are
\* pairwise disjoint and together cover exactly the columns from the start
\* of page 1 to the far edge: [start_offset, img_width) left-to-right,
\* [0, img_width - start_offset) right-to-left.
C16_PagesPartitionSpan ==
    (Loaded /\ IntegerStart) =>
        /\ \A n, m \in PageNums :
               n # m => CropColumns(ExportPageRect(n)) \cap CropColumns(ExportPageRect(m)) = {}
        /\ UNION {CropColumns(ExportPageRect(n)) : n \in PageNums} = SpanColumns

\* C16 witness: a right-click has set an integer start inside the image and
\* the grid has full pages and a short last page
C16_Witness ==
    /\ Loaded
    /\ IntegerStart
    /\ last.op = "on_right_click"
    /\ RLt(R(0), start_offset)
    /\ pages_x >= 2
    /\ CropWidth(ExportPageRect(1)) = page_width_px
    /\ CropWidth(ExportPageRect(pages_x)) < page_width_px

\* C13: after a failed load (at open or at the forced decode) the raster,
\* image path, raster dimensions, page width and height, start offset and
\* page count are all what they were before the load was attempted.
C13_FailedLoadRetainsState ==
    last.op = "load_image_failed" => LoadState = last.before

\* C11: export_page writes no file when the output directory is unset or
\* when page_num is outside 1..pages_x at the moment of the write; so no
\* click, export-all or export-visible ever writes such a page.
C11_ExportValidates ==
    last.op = "export_page" =>
        ((last.output_dir = NoImage \/ last.page_num \notin 1..last.pages_x)
            => last.result # "saved")

\* C12: when export_page fails for a page of a batch that has pages left,
\* the batch is not aborted: it is still in flight, at the root.update()
\* that follows the page, from where it goes on to the next page.
C12_FailureDoesNotAbort ==
    (/\ last.op = "export_page"
     /\ last.via \in ExportKinds
     /\ last.result # "saved"
     /\ last.remaining > 0)
        => (Len(batches) = last.depth /\ Top.at = "update")

\* pages a batch loop has completed
PagesDone(frame) ==
    IF frame.kind = "print"
    THEN frame.page_num - frame.first
    ELSE frame.page_num - frame.first + (IF frame.at = "update" THEN 1 ELSE 0)
\* the loop is between its first and its last page
BetweenPages(frame) ==
    PagesDone(frame) >= 1 /\ PagesDone(frame) < frame.stop - frame.first + 1

\* C14: while an export batch or a print job is between its first and its
\* last page, no step is a load of a raster.
C14_NoReloadInBatch ==
    [][(\E i \in 1..Len(batches) : BetweenPages(batches[i]))
           => ~(\E path \in ExportPaths : load_image(path))]_vars

\* C15: every page a batch writes (or a print job hands to the printer) has
\* a higher number than the page it wrote before, and no other batch has
\* written, since this batch's first write, a path this batch writes.
C15_AscendingNotInterleaved ==
    /\ (last.op = "export_page" /\ last.via \in ExportKinds /\ last.result = "saved")
           => (last.page_num > last.prev /\ ~last.interleaved)
    /\ (last.op = "print_page" /\ last.result = "printed")
           => last.page_num > last.prev
====
